---- MODULE Spec2Model ----
(***************************************************************************)
(* Verification model of the biogas database pipeline:                     *)
(*   ContactBuilder  (src/src/core/contact_builder.py)                     *)
(*   PlantBuilder    (src/src/core/plant_builder.py)                       *)
(*   build_database  (src/scripts/main.py)                                 *)
(*   cross_reference_operators_plants                                      *)
(*                   (src/src/analysis/enhanced_data_processing.py)        *)
(*   MaStrFetcher    (src/src/core/mastr_fetcher.py)                       *)
(*                                                                         *)
(* Cell values.  A CSV cell read by pandas with dtype=str is either a      *)
(* non-empty string or the missing value NaN (pandas reads an empty cell   *)
(* as NaN); the empty string "" only appears where the code writes it.     *)
(* Strings are sequences of one-character strings; NaN is a one-element    *)
(* sequence holding a token that is no character, so it differs from every *)
(* string.  NaN cells of one read are the same float object, hence one     *)
(* dictionary key; the model's NaN = NaN mirrors that.                     *)
(***************************************************************************)
EXTENDS Integers, Sequences, FiniteSets, TLC

VARIABLES
    \* ---- ContactBuilder._deduplicate
    hdr,        \* source column names of the market-actor CSV
    dpc,        \* "read" | "rows" | "done"
    pending,    \* rows of the current chunk not yet iterated
    lastChunk,  \* the chunk being iterated is the file's last one
    fed,        \* rows iterated so far, in feed order (after column fill)
    store,      \* dict key -> row, as a sequence in insertion order
    derr,       \* an exception ended the scan
    table,      \* the DataFrame returned by _deduplicate
    \* ---- build_database: ContactBuilder.build, PlantBuilder.build, merge
    ppc,        \* "contacts" | "locations" | "biomass" | "gas" | "concat" |
                \* "merge" | "done"
                \* | "failed": an error left build_database
    phdr,       \* source column names of the biomass and gas-producer CSVs
    pread,      \* plant rows read so far
    loc_map,    \* keys of the location map of PlantBuilder.build
    files,      \* output file -> "absent" | "written" | "broken"
    opfeed,     \* rows of the market-actor extract of this run, in file order
    contacts,   \* DataFrame returned by ContactBuilder.build
    srcLast,    \* the plant source being read has given its last chunk
    all_dfs,    \* biomass_dfs + gas_dfs: the enriched chunks, in order
    src_ops,    \* history: for each chunk of all_dfs, the operator cells
                \* (AnlagenbetreiberMastrNummer) its rows had in the extract
    plants,     \* DataFrame returned by PlantBuilder.build
    merged,     \* plants.merge(contacts, ...)
    \* ---- enhanced_data_processing: extract_full_operator_database,
    \*      cross_reference_operators_plants
    epc,          \* "extract" | "load" | "merge" | "done"
    operators_df, \* the deduplicated operator table
    plants_df,    \* the joined plant file as read back
    plants_final, \* the enhanced plant table
    \* ---- ContactBuilder._scrape_missing
    rpc,        \* "select" | "driver" | "loop" | "plain" | "browser" |
                \* "sleep" | "quit" | "done" | "crashed"
    scrape,     \* the scrape toggle of the ContactBuilder
    selenium,   \* the selenium toggle of the ContactBuilder
    rdf,        \* df: the operator table being enriched in place
    subset,     \* positions of the selected rows of df, in order
    ri,         \* position in subset of the record being processed
    suf,        \* position in the suffix tuple of the next plain fetch
    resp,       \* r: what the latest requests.get of _try_plain gave
    driver,     \* "none" | "open" | "closed"
    sessions,   \* browser sessions created so far
    log,        \* outbound requests, delays and session events, in order
    \* ---- ContactBuilder._save_xlsx
    xpc,        \* "save" | "done" | "failed"
    xdf,        \* df: the operator table to write
    xi,         \* i: the loop variable of range(0, len(df), MAXROWS_XLSX)
    sheets,     \* the sheets handed to the writer so far, in order
    \* ---- MaStrFetcher.fetch_all
    fpc,        \* "download" | "export" | "copy" | "copyfile" | "list" |
                \* "manual" | "returned" | "raised"
    fds,        \* position of the dataset being copied or exported
    ftab,       \* position in the priority list of the table tried next
    available_tables, \* table names of the local database
    result_paths,     \* dataset key -> kind of file handed to the pipeline
    failures,   \* acquisition failures seen so far
    export_csv, \* the export_csv argument of fetch_all
    \* ---- SOAPStreamer._dump and SOAPStreamer._paged
    spc,        \* "dump" | "page" | "write" | "done" | "raised"
    path_exists,\* path.exists(): the target file of _dump is there
    page,       \* page: the PageNumber of the next request
    parts,      \* parts: the pages _paged has yielded, in order
    calls,      \* the PageNumber of every call of fn made so far, in order
    pages       \* history: the chunk every call of fn returned, in order

dvars == <<hdr, dpc, pending, lastChunk, fed, store, derr, table>>
pvars == <<ppc, phdr, pread, loc_map, files, opfeed, contacts, srcLast, all_dfs, src_ops, plants, merged>>
evars == <<epc, operators_df, plants_df, plants_final>>
rvars == <<rpc, scrape, selenium, rdf, subset, ri, suf, resp, driver, sessions, log>>
xvars == <<xpc, xdf, xi, sheets>>
fvars == <<fpc, fds, ftab, available_tables, result_paths, failures, export_csv>>
svars == <<spc, path_exists, page, parts, calls, pages>>

vars == <<hdr, dpc, pending, lastChunk, fed, store, derr, table,
          ppc, phdr, pread, loc_map, files, opfeed, contacts, srcLast, all_dfs, src_ops, plants, merged,
          epc, operators_df, plants_df, plants_final,
          rpc, scrape, selenium, rdf, subset, ri, suf, resp, driver, sessions, log,
          xpc, xdf, xi, sheets,
          fpc, fds, ftab, available_tables, result_paths, failures, export_csv,
          spc, path_exists, page, parts, calls, pages>>

----------------------------------------------------------------------------
\* Bounds of the model
MaxRows == 3        \* rows in the market-actor file (Deduplicator scan)
ChunkRows == 2      \* rows per chunk (CHUNKSIZE, scaled down)
MaxOps == 2         \* market-actor rows of a pipeline run
MaxPlantRows == 2   \* biomass plus gas-producer rows of a pipeline run
MaxRecs == 2        \* rows of the operator table handed to the resolver
MaxSaveRows == 5    \* rows of the operator table handed to _save_xlsx
PageSize == 2       \* records per page (self.page = 1000 in the source, scaled down)
MaxPages == 3       \* pages the service can be asked for
MAXROWS_XLSX == 2   \* rows per sheet (1_000_000 in the source, scaled down)

----------------------------------------------------------------------------
\* Cell values
NaN == <<"NaN">>
Empty == <<>>

\* Python None (no match of a pattern, no entry of a dict)
None == <<"None">>

IsNa(v) == v = NaN

\* Python truthiness of a cell: float('nan') is truthy, a string is truthy
\* iff it is non-empty.
Truthy(v) == IsNa(v) \/ v # Empty

\* Python str(): str(float('nan')) is 'nan'.
PyStr(v) == IF IsNa(v) THEN <<"n", "a", "n">> ELSE v

----------------------------------------------------------------------------
\* ContactBuilder._deduplicate

column_mapping ==
    [MastrNummer |-> "market_actor_id",
     Firmenname  |-> "market_actor_name",
     Email       |-> "email",
     Telefon     |-> "phone",
     Webseite    |-> "website"]

keep == <<"market_actor_id", "market_actor_name", "email", "phone", "website">>

KeepSet == {keep[i] : i \in DOMAIN keep}

\* chunk.rename(columns=column_mapping): the column names after renaming
Renamed(cols) ==
    {IF c \in DOMAIN column_mapping THEN column_mapping[c] ELSE c : c \in cols}

\* [col for col in keep if col in chunk.columns]
available_cols(cols) == SelectSeq(keep, LAMBDA c : c \in Renamed(cols))

AvailSet(cols) == {c \in KeepSet : c \in Renamed(cols)}

\* chunk = chunk[available_cols].copy(); for col in keep: if col not in
\* chunk.columns: chunk[col] = "" -- the columns of the chunk, in order: a
\* missing column is appended after the available ones
ChunkColumns(cols) ==
    available_cols(cols) \o SelectSeq(keep, LAMBDA c : c \notin Renamed(cols))

\* the columns of the DataFrame _deduplicate returns: pd.DataFrame(columns=
\* keep) for an empty store, else the columns of the stored rows
TableColumns(cols, st) == IF st = <<>> THEN keep ELSE ChunkColumns(cols)

\* the cells a source file can hold in each column
IdCells == {NaN, <<"a">>, <<"b">>}
SourceCells(c) ==
    CASE c = "market_actor_id"   -> IdCells
      [] c = "market_actor_name" -> {<<"n">>}
      [] c = "email"             -> {NaN, <<"e">>}
      [] c = "phone"             -> {NaN, <<"p">>}
      [] c = "website"           -> {NaN, <<"w">>}

FullRows ==
    [market_actor_id : IdCells,
     market_actor_name : SourceCells("market_actor_name"),
     email : SourceCells("email"),
     phone : SourceCells("phone"),
     website : SourceCells("website")]

\* the column sets a market-actor file can carry (a CSV has at least one
\* column; "Other" stands for any column the mapping does not know)
HeaderChoices == (SUBSET (DOMAIN column_mapping) \ {{}}) \cup {{"Other"}}

\* rows of chunk[available_cols]: one cell per available column
RawRows(cols) == {[c \in AvailSet(cols) |-> r[c]] : r \in FullRows}

\* for col in keep: if col not in chunk.columns: chunk[col] = ""
FillMissing(raw) ==
    [c \in KeepSet |-> IF c \in DOMAIN raw THEN raw[c] ELSE Empty]

\* not (row.get("email") or row.get("phone") or str(row.get("website", "")))
\* is the condition under which the row is skipped
Retained(row) ==
    Truthy(row["email"]) \/ Truthy(row["phone"]) \/ PyStr(row["website"]) # Empty

HasKey(st, k) == \E i \in DOMAIN st : st[i].key = k

\* a plausible slip: plain assignment, every row appended under its key
SetDefaultAppend(st, k, row) == Append(st, [key |-> k, row |-> row])

\* dict.setdefault(k, row): insert only when k is not yet a key
SetDefault(st, k, row) ==
    IF HasKey(st, k) THEN st ELSE Append(st, [key |-> k, row |-> row])

\* body of the row loop
FoldRow(st, row) ==
    IF ~Retained(row) THEN st
    ELSE SetDefault(st, row["market_actor_id"], row)

\* pd.DataFrame(columns=keep) when the store is empty, else
\* pd.DataFrame.from_dict(store, orient="index"): one row per key
FromDict(st) == [i \in DOMAIN st |-> st[i].row]

DatasetKeys == {"market_actors", "biomass", "gas_producer", "locations"}

SoapIdle ==
    /\ spc = "idle"
    /\ path_exists = FALSE
    /\ page = 0
    /\ parts = <<>>
    /\ calls = <<>>
    /\ pages = <<>>

FetchIdle ==
    /\ fpc = "idle"
    /\ fds = 1
    /\ ftab = 1
    /\ available_tables = {}
    /\ result_paths = [k \in DatasetKeys |-> "none"]
    /\ failures = {}
    /\ export_csv = TRUE

SaveIdle ==
    /\ xpc = "idle"
    /\ xdf = <<>>
    /\ xi = 0
    /\ sheets = <<>>

ResolverIdle ==
    /\ rpc = "idle"
    /\ scrape = FALSE
    /\ selenium = FALSE
    /\ rdf = <<>>
    /\ subset = <<>>
    /\ ri = 1
    /\ suf = 1
    /\ resp = [kind |-> "none"]
    /\ driver = "none"
    /\ sessions = 0
    /\ log = <<>>

EnhanceIdle ==
    /\ epc = "idle"
    /\ operators_df = <<>>
    /\ plants_df = <<>>
    /\ plants_final = <<>>

OutputFiles == {"contacts_xlsx", "plants_csv", "join_csv"}

PipelineIdle ==
    /\ ppc = "idle"
    /\ phdr = [biomass |-> {}, gas |-> {}]
    /\ pread = 0
    /\ loc_map = {}
    /\ files = [f \in OutputFiles |-> "absent"]
    /\ opfeed = <<>>
    /\ contacts = <<>>
    /\ srcLast = FALSE
    /\ all_dfs = <<>>
    /\ src_ops = <<>>
    /\ plants = <<>>
    /\ merged = <<>>

DedupIdle ==
    /\ hdr = {}
    /\ dpc = "idle"
    /\ pending = 0
    /\ lastChunk = FALSE
    /\ fed = <<>>
    /\ store = <<>>
    /\ derr = FALSE
    /\ table = <<>>

DedupInit ==
    /\ hdr \in HeaderChoices
    /\ dpc = "read"
    /\ pending = 0
    /\ lastChunk = FALSE
    /\ fed = <<>>
    /\ store = <<>>
    /\ derr = FALSE
    /\ table = <<>>
    /\ PipelineIdle
    /\ EnhanceIdle
    /\ ResolverIdle
    /\ SaveIdle
    /\ FetchIdle
    /\ SoapIdle

\* next(pd.read_csv(..., chunksize=CHUNKSIZE)) and the per-chunk checks
ReadChunk ==
    /\ dpc = "read"
    /\ ~lastChunk
    /\ \E n \in 0..ChunkRows :
        /\ Len(fed) + n <= MaxRows
        /\ n = 0 => fed = <<>>
        /\ lastChunk' = (n < ChunkRows)
        /\ IF n = 0 \/ Len(available_cols(hdr)) = 0
           THEN /\ pending' = 0
                /\ dpc' = "read"
           ELSE /\ pending' = n
                /\ dpc' = "rows"
    /\ UNCHANGED <<hdr, fed, store, derr, table>>
    /\ UNCHANGED <<pvars, evars, rvars, xvars, fvars, svars>>

\* one iteration of "for _, row in chunk.iterrows()"
IterRow ==
    /\ dpc = "rows"
    /\ \E raw \in RawRows(hdr) :
        LET row == FillMissing(raw) IN
        /\ fed' = Append(fed, row)
        /\ store' = FoldRow(store, row)
    /\ pending' = pending - 1
    /\ dpc' = IF pending = 1 THEN "read" ELSE "rows"
    /\ UNCHANGED <<hdr, lastChunk, derr, table>>
    /\ UNCHANGED <<pvars, evars, rvars, xvars, fvars, svars>>

\* the reader is exhausted: build the returned DataFrame
EndOfFile ==
    /\ dpc = "read"
    /\ table' = FromDict(store)
    /\ dpc' = "done"
    /\ UNCHANGED <<hdr, pending, lastChunk, fed, store, derr>>
    /\ UNCHANGED <<pvars, evars, rvars, xvars, fvars, svars>>

\* the reader raises (EmptyDataError, ParserError, ...): the except
\* clauses print, and the DataFrame is built from what was stored so far
ReadError ==
    /\ dpc = "read"
    /\ ~lastChunk
    /\ derr' = TRUE
    /\ table' = FromDict(store)
    /\ dpc' = "done"
    /\ UNCHANGED <<hdr, pending, lastChunk, fed, store>>
    /\ UNCHANGED <<pvars, evars, rvars, xvars, fvars, svars>>

DedupNext == ReadChunk \/ IterRow \/ EndOfFile \/ ReadError

SpecDedup == DedupInit /\ [][DedupNext]_vars

----------------------------------------------------------------------------
\* String operations of pandas used by PlantBuilder._enrich

UpperCase == <<"A", "B", "C", "D", "E", "F", "G", "H", "I", "J", "K", "L", "M",
               "N", "O", "P", "Q", "R", "S", "T", "U", "V", "W", "X", "Y", "Z">>
LowerCase == <<"a", "b", "c", "d", "e", "f", "g", "h", "i", "j", "k", "l", "m",
               "n", "o", "p", "q", "r", "s", "t", "u", "v", "w", "x", "y", "z">>

\* the characters the regular expression \s matches
Whitespace == {" ", "\t", "\n", "\r"}

LowerChar(c) ==
    IF \E i \in DOMAIN UpperCase : UpperCase[i] = c
    THEN LowerCase[CHOOSE i \in DOMAIN UpperCase : UpperCase[i] = c]
    ELSE c

\* Series.astype(str): a missing value becomes the string "nan"
AsTypeStr(v) == PyStr(v)

\* .str.lower()
StrLower(s) == [i \in DOMAIN s |-> LowerChar(s[i])]

\* .str.replace(" ", "_")
ReplaceSpace(s) == [i \in DOMAIN s |-> IF s[i] = " " THEN "_" ELSE s[i]]

\* .str.strip().str.replace(r"\s+", "", regex=True): no whitespace is left
RemoveWhitespace(s) == SelectSeq(s, LAMBDA c : c \notin Whitespace)

Digits == <<"0", "1", "2", "3", "4", "5", "6", "7", "8", "9">>
IsDigit(c) == \E i \in DOMAIN Digits : Digits[i] = c
DigitValue(c) == (CHOOSE i \in DOMAIN Digits : Digits[i] = c) - 1

RECURSIVE DigitsValue(_)
DigitsValue(s) ==
    IF s = <<>> THEN 0
    ELSE 10 * DigitsValue(SubSeq(s, 1, Len(s) - 1)) + DigitValue(s[Len(s)])

AllDigits(s) == s # <<>> /\ \A i \in DOMAIN s : IsDigit(s[i])

\* pd.to_numeric(col, errors="coerce").fillna(0).astype(int) on a cell holding
\* an optionally signed run of digits; any other cell is coerced to NaN and
\* filled with 0
ToIntOrZero(v) ==
    IF IsNa(v) \/ v = <<>> THEN 0
    ELSE IF AllDigits(v) THEN DigitsValue(v)
    ELSE IF v[1] = "-" /\ AllDigits(Tail(v)) THEN 0 - DigitsValue(Tail(v))
    ELSE 0

----------------------------------------------------------------------------
\* PlantBuilder._enrich and PlantBuilder.build

OP1 == <<"O", "P", "1">>
OP2 == <<"O", "P", "2">>

\* cells of a biomass or gas-producer extract
UnitIdCells == {<<"A", "1">>, <<"B", " ", "2">>}
OperatorIdCells == {NaN, OP1, OP2}
CapacityCells == {<<"5", "0", "0">>}
DateCells == {<<"2", "0", "0", "5", "-", "0", "3", "-", "0", "1">>}
LongitudeCells == {<<"9", ".", "5">>}
LatitudeCells == {<<"5", "1", ".", "2">>}

\* column_mapping of _enrich: source column -> column name (the columns for
\* plant_name and postal_code are not modelled)
plant_column_mapping(has_el) ==
    IF has_el
    THEN [EinheitMastrNummer |-> "unit_id",
          Inbetriebnahmedatum |-> "commissioning_year",
          Nettonennleistung |-> "capacity_el_kw",
          AnlagenbetreiberMastrNummer |-> "operator_id",
          Laengengrad |-> "longitude_raw",
          Breitengrad |-> "latitude_raw"]
    ELSE [EinheitMastrNummer |-> "unit_id",
          Inbetriebnahmedatum |-> "commissioning_year",
          Erzeugungsleistung |-> "capacity_gas_m3_per_h",
          AnlagenbetreiberMastrNummer |-> "operator_id",
          Laengengrad |-> "longitude_raw",
          Breitengrad |-> "latitude_raw"]

\* the column the source kind does not have and _enrich sets to "0"
ConstantColumn(has_el) ==
    IF has_el THEN "capacity_gas_m3_per_h" ELSE "capacity_el_kw"

required_cols ==
    <<"unit_id", "commissioning_year", "capacity_el_kw",
      "capacity_gas_m3_per_h", "operator_id">>

RequiredSet == {required_cols[i] : i \in DOMAIN required_cols}

\* the capacity column of the other source kind
ForeignCapacity(has_el) ==
    IF has_el THEN "Erzeugungsleistung" ELSE "Nettonennleistung"

CoordinateColumns == {"Laengengrad", "Breitengrad"}

\* headers of a plant extract: every mapped column; every mapped column but
\* the coordinates; every mapped column and the capacity column of the
\* other kind; none of the mapped columns
PlantHeaderChoices(has_el) ==
    {DOMAIN plant_column_mapping(has_el),
     DOMAIN plant_column_mapping(has_el) \ CoordinateColumns,
     DOMAIN plant_column_mapping(has_el) \cup {ForeignCapacity(has_el)},
     {"Other"}}

\* the cells of one source column
CellsOf(c, has_el, units, ops, caps, dates) ==
    IF c = "EinheitMastrNummer" THEN units
    ELSE IF c = "AnlagenbetreiberMastrNummer" THEN ops
    ELSE IF c = "Inbetriebnahmedatum" THEN dates
    ELSE IF c = ForeignCapacity(has_el) THEN {<<"7">>}
    ELSE IF c \in {"Nettonennleistung", "Erzeugungsleistung"} THEN caps
    ELSE IF c = "Laengengrad" THEN LongitudeCells
    ELSE IF c = "Breitengrad" THEN LatitudeCells
    ELSE {<<"x">>}

RECURSIVE PlantRowsOf(_, _, _, _, _, _)
\* rows of a plant extract with the header h, cells from the given sets
PlantRowsOf(h, has_el, units, ops, caps, dates) ==
    IF h = {} THEN {<<>>}
    ELSE LET c == CHOOSE x \in h : TRUE
         IN {(c :> v) @@ r :
                v \in CellsOf(c, has_el, units, ops, caps, dates),
                r \in PlantRowsOf(h \ {c}, has_el, units, ops, caps, dates)}

\* rows of the extracts of a pipeline run
PlantRaw(h, has_el) ==
    PlantRowsOf(h, has_el, UnitIdCells, OperatorIdCells, CapacityCells, DateCells)

\* rows of the extracts of a PlantBuilder run: an identifier with a tab,
\* capacities and dates that are missing, negative or no number
WideUnitIdCells == {<<"B", "\t", "2">>}
WideCapacityCells == {NaN, <<"5", "0", "0">>, <<"-", "5">>, <<"a", "b", "c">>}
WideDateCells == {NaN, <<"2", "0", "0", "5", "-", "0", "3", "-", "0", "1">>}
PlantRawWide(h, has_el) ==
    PlantRowsOf(h, has_el, WideUnitIdCells, {OP1}, WideCapacityCells, WideDateCells)

\* chunk[constant column] = "0"; chunk = chunk.rename(columns=column_mapping)
RenamedPlant(raw, has_el) ==
    LET m == plant_column_mapping(has_el)
        k == ConstantColumn(has_el)
        Name(c) == IF c \in DOMAIN m THEN m[c] ELSE c
        cols == {Name(c) : c \in DOMAIN raw} \cup {k}
    IN [c \in cols |->
            IF c = k THEN <<"0">>
            ELSE raw[CHOOSE d \in DOMAIN raw : Name(d) = c]]

\* available_cols = [col for col in required_cols if col in chunk.columns]
plant_available_cols(row) == SelectSeq(required_cols, LAMBDA c : c \in DOMAIN row)

\* for col in required_cols: if col not in chunk.columns: chunk[col] = "";
\* chunk = chunk[required_cols].copy()
FillRequired(row) ==
    [c \in RequiredSet |-> IF c \in DOMAIN row THEN row[c] ELSE Empty]

\* .str[:4]
Take4(s) == SubSeq(s, 1, IF Len(s) < 4 THEN Len(s) ELSE 4)

\* pd.to_numeric(col, errors="coerce") on a cell holding digits with an
\* optional decimal point: the float, written as its whole part and its
\* decimals; any other cell is coerced to NaN
ToNumeric(v) ==
    IF IsNa(v) THEN NaN
    ELSE LET dots == {i \in DOMAIN v : v[i] = "."}
         IN IF dots = {} /\ AllDigits(v)
            THEN <<"float", DigitsValue(v), <<>>>>
            ELSE IF Cardinality(dots) = 1
            THEN LET d == CHOOSE i \in dots : TRUE
                     w == SubSeq(v, 1, d - 1)
                     f == SubSeq(v, d + 1, Len(v))
                 IN IF AllDigits(w) /\ AllDigits(f)
                    THEN <<"float", DigitsValue(w), f>>
                    ELSE NaN
            ELSE NaN

\* loc_map.get(str(uid), {"latitude": None, "longitude": None}): every entry
\* of loc_map is {"latitude": "", "longitude": ""}
LocLookup(lm, uid) == IF PyStr(uid) \in lm THEN Empty ELSE None

\* a slip: every row is labelled as a biogas plant
plant_type_biogas(has_el) == "biogas"

\* chunk["plant_type"] = "biogas" if has_el else "gas"
plant_type(has_el) == IF has_el THEN "biogas" ELSE "gas"

\* one row of the DataFrame _enrich yields
EnrichRow(raw, has_el, lm) ==
    LET c == FillRequired(RenamedPlant(raw, has_el))
        raw_coords == "latitude_raw" \in DOMAIN c /\ "longitude_raw" \in DOMAIN c
    IN [plant_id |-> StrLower(ReplaceSpace(AsTypeStr(c["unit_id"]))),
        commissioning_year |-> ToIntOrZero(Take4(AsTypeStr(c["commissioning_year"]))),
        capacity_el_kW |-> ToIntOrZero(c["capacity_el_kw"]),
        capacity_gas |-> ToIntOrZero(c["capacity_gas_m3_per_h"]),
        operator_id |-> RemoveWhitespace(AsTypeStr(c["operator_id"])),
        latitude |-> IF raw_coords THEN ToNumeric(c["latitude_raw"])
                     ELSE LocLookup(lm, c["unit_id"]),
        longitude |-> IF raw_coords THEN ToNumeric(c["longitude_raw"])
                      ELSE LocLookup(lm, c["unit_id"]),
        plant_type |-> plant_type(has_el)]

\* the rows a chunk contributes: none when it has no required column
EnrichChunkRows(chunk, has_el, lm) ==
    IF plant_available_cols(RenamedPlant(chunk[1], has_el)) = <<>> THEN <<>>
    ELSE [i \in DOMAIN chunk |-> EnrichRow(chunk[i], has_el, lm)]

\* keys of the locations extract (MastrNummer cells)
LocationKeys == {<<"B", "\t", "2">>}

\* the location map of build: one entry per MastrNummer of the locations
\* file, or empty when the file is empty or cannot be read
BuildLocMapFrom(maps) ==
    /\ ppc = "locations"
    /\ \E lm \in maps : loc_map' = lm
    /\ ppc' = "biomass"
    /\ UNCHANGED <<phdr, pread, files, opfeed, contacts, srcLast, all_dfs, src_ops, plants, merged>>
    /\ UNCHANGED <<dvars, evars, rvars, xvars, fvars, svars>>

\* a pipeline run: the locations extract is not exported and arrives empty
BuildLocMap == BuildLocMapFrom({{}})

BuildLocMapWide == BuildLocMapFrom(SUBSET LocationKeys)

RECURSIVE Concat(_)
\* pd.concat(all_dfs, ignore_index=True): the rows of the chunks, in order
Concat(dfs) == IF dfs = <<>> THEN <<>> ELSE Head(dfs) \o Concat(Tail(dfs))

\* the operator cells of the rows of a chunk as read from the extract
SourceOperators(chunk) ==
    [i \in DOMAIN chunk |->
        IF "AnlagenbetreiberMastrNummer" \in DOMAIN chunk[i]
        THEN chunk[i]["AnlagenbetreiberMastrNummer"] ELSE Empty]

\* one iteration of the chunk loop of _enrich over rows drawn from Rows; a
\* chunk shorter than the chunk size is the last one of its source
EnrichChunkFrom(Rows) ==
    /\ ppc \in {"biomass", "gas"}
    /\ ~srcLast
    /\ \E n \in 0..ChunkRows :
        /\ pread + n <= MaxPlantRows
        /\ srcLast' = (n < ChunkRows)
        /\ pread' = pread + n
        /\ IF n = 0
           THEN UNCHANGED <<all_dfs, src_ops>>
           ELSE \E chunk \in [1..n -> Rows] :
                    LET out == EnrichChunkRows(chunk, ppc = "biomass", loc_map)
                    IN /\ all_dfs' = IF out = <<>> THEN all_dfs
                                     ELSE Append(all_dfs, out)
                       /\ src_ops' = IF out = <<>> THEN src_ops
                                     ELSE Append(src_ops, SourceOperators(chunk))
    /\ UNCHANGED <<ppc, phdr, loc_map, opfeed, contacts, plants, merged, files>>
    /\ UNCHANGED <<dvars, evars, rvars, xvars, fvars, svars>>

EnrichChunk == EnrichChunkFrom(PlantRaw(phdr[ppc], ppc = "biomass"))

EnrichChunkWide == EnrichChunkFrom(PlantRawWide(phdr[ppc], ppc = "biomass"))

\* the reader of the current source is exhausted: list(...) completes
SourceEnd ==
    /\ ppc \in {"biomass", "gas"}
    /\ ppc' = IF ppc = "biomass" THEN "gas" ELSE "concat"
    /\ srcLast' = FALSE
    /\ UNCHANGED <<phdr, pread, loc_map, opfeed, contacts, all_dfs, src_ops, plants, merged, files>>
    /\ UNCHANGED <<dvars, evars, rvars, xvars, fvars, svars>>

\* reading or enriching raises: _enrich prints, yields an empty DataFrame
\* and ends, so the rest of this source is not read
SourceError ==
    /\ ppc \in {"biomass", "gas"}
    /\ ~srcLast
    /\ ppc' = IF ppc = "biomass" THEN "gas" ELSE "concat"
    /\ srcLast' = FALSE
    /\ all_dfs' = Append(all_dfs, <<>>)
    /\ src_ops' = Append(src_ops, <<>>)
    /\ UNCHANGED <<phdr, pread, loc_map, opfeed, contacts, plants, merged, files>>
    /\ UNCHANGED <<dvars, evars, rvars, xvars, fvars, svars>>

\* a slip: the error of a failed write is swallowed and the run goes on
AfterWriteSwallowed(ok, next) == next

\* no write of an output file is inside a try: when it raises, the error
\* leaves build_database and nothing after it runs
AfterWrite(ok, next) == IF ok THEN next ELSE "failed"

\* the file after a write: complete, or whatever a failed write left
Written(ok) == IF ok THEN "written" ELSE "broken"

\* df = pd.concat(all_dfs, ignore_index=True); df.to_csv(OUT_PLANTS_CSV);
\* return df
ConcatPlants ==
    /\ ppc = "concat"
    /\ \E ok \in BOOLEAN :
        /\ files' = [files EXCEPT !["plants_csv"] = Written(ok)]
        /\ plants' = IF ok THEN Concat(all_dfs) ELSE plants
        /\ ppc' = AfterWrite(ok, "merge")
    /\ UNCHANGED <<phdr, pread, loc_map, opfeed, contacts, srcLast, all_dfs, src_ops, merged>>
    /\ UNCHANGED <<dvars, evars, rvars, xvars, fvars, svars>>

----------------------------------------------------------------------------
\* build_database: ContactBuilder.build, PlantBuilder.build, merge

\* market-actor rows of a pipeline run (all five source columns present)
PipelineRows ==
    [market_actor_id : {NaN, OP1},
     market_actor_name : {<<"n">>},
     email : {NaN, <<"e">>},
     phone : {NaN},
     website : {NaN}]

PipelineFeeds == UNION {[1..n -> PipelineRows] : n \in 0..MaxOps}

RECURSIVE DedupAll(_)
\* the whole scan of _deduplicate over the rows of the file
DedupAll(rows) ==
    IF rows = <<>> THEN <<>>
    ELSE FoldRow(DedupAll(SubSeq(rows, 1, Len(rows) - 1)), rows[Len(rows)])

\* df.drop(columns="website", errors="ignore")
DropWebsite(df) ==
    [i \in DOMAIN df |-> [c \in DOMAIN df[i] \ {"website"} |-> df[i][c]]]

\* ContactBuilder.build() with scrape=False: deduplicate, save, drop website
BuildContactsFrom(Feeds) ==
    /\ ppc = "contacts"
    /\ \E feed \in Feeds, ok \in BOOLEAN :
        /\ opfeed' = feed
        /\ files' = [files EXCEPT !["contacts_xlsx"] = Written(ok)]
        /\ contacts' =
             IF ok
             THEN DropWebsite(FromDict(DedupAll([i \in DOMAIN feed |-> FillMissing(feed[i])])))
             ELSE contacts
        /\ ppc' = AfterWrite(ok, "locations")
    /\ UNCHANGED <<phdr, pread, loc_map, srcLast, all_dfs, src_ops, plants, merged>>
    /\ UNCHANGED <<dvars, evars, rvars, xvars, fvars, svars>>

BuildContacts == BuildContactsFrom(PipelineFeeds)

\* the operator columns of a joined row
OperatorColumns == {"market_actor_id", "market_actor_name", "email", "phone"}

\* a joined row: the plant columns followed by the operator columns
JoinRow(p, c) ==
    [plant_id |-> p.plant_id,
     commissioning_year |-> p.commissioning_year,
     capacity_el_kW |-> p.capacity_el_kW,
     capacity_gas |-> p.capacity_gas,
     operator_id |-> p.operator_id,
     latitude |-> p.latitude,
     longitude |-> p.longitude,
     plant_type |-> p.plant_type,
     market_actor_id |-> c["market_actor_id"],
     market_actor_name |-> c["market_actor_name"],
     email |-> c["email"],
     phone |-> c["phone"]]

\* the operator columns of a left row without a match are missing values
NullOperator == [c \in OperatorColumns |-> NaN]

\* the rows of the right table whose key equals k, in right order
Matches(right, k) == SelectSeq(right, LAMBDA c : c["market_actor_id"] = k)

RECURSIVE InnerMerge(_, _)
\* how="inner": a left row without a match is dropped
InnerMerge(left, right) ==
    IF left = <<>> THEN <<>>
    ELSE LET p == Head(left)
             m == Matches(right, p.operator_id)
         IN [i \in DOMAIN m |-> JoinRow(p, m[i])] \o InnerMerge(Tail(left), right)

RECURSIVE LeftMerge(_, _)
\* left.merge(right, left_on="operator_id", right_on="market_actor_id",
\* how="left"): every left row, once per matching right row, in left order
LeftMerge(left, right) ==
    IF left = <<>> THEN <<>>
    ELSE LET p == Head(left)
             m == Matches(right, p.operator_id)
         IN (IF m = <<>> THEN <<JoinRow(p, NullOperator)>>
             ELSE [i \in DOMAIN m |-> JoinRow(p, m[i])])
            \o LeftMerge(Tail(left), right)

\* merged = plants.merge(contacts, ...); merged.to_csv(OUT_JOIN_CSV)
Merge ==
    /\ ppc = "merge"
    /\ merged' = LeftMerge(plants, contacts)
    /\ \E ok \in BOOLEAN :
        /\ files' = [files EXCEPT !["join_csv"] = Written(ok)]
        /\ ppc' = AfterWrite(ok, "done")
    /\ UNCHANGED <<phdr, pread, loc_map, opfeed, contacts, srcLast, all_dfs, src_ops, plants>>
    /\ UNCHANGED <<dvars, evars, rvars, xvars, fvars, svars>>

\* a pipeline run on extracts that carry every mapped column
PipelineInit ==
    /\ ppc = "contacts"
    /\ phdr = [biomass |-> DOMAIN plant_column_mapping(TRUE),
               gas |-> DOMAIN plant_column_mapping(FALSE)]
    /\ pread = 0
    /\ loc_map = {}
    /\ files = [f \in OutputFiles |-> "absent"]
    /\ opfeed = <<>>
    /\ contacts = <<>>
    /\ srcLast = FALSE
    /\ all_dfs = <<>>
    /\ src_ops = <<>>
    /\ plants = <<>>
    /\ merged = <<>>
    /\ DedupIdle
    /\ EnhanceIdle
    /\ ResolverIdle
    /\ SaveIdle
    /\ FetchIdle
    /\ SoapIdle

PipelineNext ==
    BuildContacts \/ BuildLocMap \/ EnrichChunk \/ SourceEnd \/ SourceError \/ ConcatPlants \/ Merge

SpecPipeline == PipelineInit /\ [][PipelineNext]_vars

\* a pipeline run on extracts whose operator identifiers may hold a space:
\* the same cells in the market-actor extract and in the plant extracts
OPSpace == <<"O", "P", " ", "1">>
JoinIdCells == {OPSpace, OP2}

JoinRows ==
    [market_actor_id : JoinIdCells,
     market_actor_name : {<<"n">>},
     email : {<<"e">>},
     phone : {NaN},
     website : {NaN}]

JoinFeeds == UNION {[1..n -> JoinRows] : n \in 0..MaxOps}

BuildContactsJoin == BuildContactsFrom(JoinFeeds)

EnrichChunkJoin ==
    EnrichChunkFrom(PlantRowsOf(phdr[ppc], ppc = "biomass", {<<"A", "1">>},
                                JoinIdCells, CapacityCells, DateCells))

JoinNext ==
    BuildContactsJoin \/ BuildLocMap \/ EnrichChunkJoin \/ SourceEnd \/ SourceError
        \/ ConcatPlants \/ Merge

SpecJoin == PipelineInit /\ [][JoinNext]_vars

\* PlantBuilder.build on its own, on extracts with any header
PlantsInit ==
    /\ ppc = "locations"
    /\ phdr \in [biomass : PlantHeaderChoices(TRUE), gas : PlantHeaderChoices(FALSE)]
    /\ pread = 0
    /\ loc_map = {}
    /\ files = [f \in OutputFiles |-> "absent"]
    /\ opfeed = <<>>
    /\ contacts = <<>>
    /\ srcLast = FALSE
    /\ all_dfs = <<>>
    /\ src_ops = <<>>
    /\ plants = <<>>
    /\ merged = <<>>
    /\ DedupIdle
    /\ EnhanceIdle
    /\ ResolverIdle
    /\ SaveIdle
    /\ FetchIdle
    /\ SoapIdle

PlantsNext == BuildLocMapWide \/ EnrichChunkWide \/ SourceEnd \/ SourceError \/ ConcatPlants

SpecPlants == PlantsInit /\ [][PlantsNext]_vars

----------------------------------------------------------------------------
\* enhanced_data_processing.py: extract_full_operator_database and
\* cross_reference_operators_plants.  Both read files; a cell read by
\* pd.read_csv / pd.read_excel is a value or NaN.

\* rows of the operator workbook sheets
SheetRows ==
    {r \in [market_actor_id : {NaN, OP1},
            market_actor_name : {NaN, <<"n">>},
            email : {NaN, <<"e">>},
            phone : {NaN, <<"p">>},
            website : {<<"w">>}] :
        (r.phone = NaN) = (r.market_actor_name = NaN)}

\* rows of german_biogas_plants_with_contacts.csv: the plant's operator_id
\* and the contact columns the pipeline's join wrote next to it
JoinedFileRows ==
    {r \in [operator_id : {NaN, OP1, OP2},
            market_actor_name : {NaN, <<"N">>},
            email : {NaN, <<"E">>},
            phone : {NaN, <<"P">>}] :
        (r.email = NaN) = (r.market_actor_name = NaN) /\ (r.email = NaN) = (r.phone = NaN)}

RECURSIVE DropDuplicates(_)
\* drop_duplicates(subset=['market_actor_id']): the first row of each id
DropDuplicates(rows) ==
    IF rows = <<>> THEN <<>>
    ELSE LET init == DropDuplicates(SubSeq(rows, 1, Len(rows) - 1))
             r == rows[Len(rows)]
         IN IF \E i \in DOMAIN init : init[i]["market_actor_id"] = r["market_actor_id"]
            THEN init ELSE Append(init, r)

\* extract_full_operator_database: concatenate the sheets, deduplicate, save
ExtractOperators ==
    /\ epc = "extract"
    /\ \E rows \in UNION {[1..n -> SheetRows] : n \in 0..MaxOps} :
        operators_df' = DropDuplicates(rows)
    /\ epc' = "load"
    /\ UNCHANGED <<plants_df, plants_final>>
    /\ UNCHANGED <<dvars, pvars, rvars, xvars, fvars, svars>>

\* plants_df = pd.read_csv("german_biogas_plants_with_contacts.csv")
LoadJoined ==
    /\ epc = "load"
    /\ \E rows \in UNION {[1..n -> JoinedFileRows] : n \in 0..MaxPlantRows} :
        plants_df' = rows
    /\ epc' = "merge"
    /\ UNCHANGED <<operators_df, plants_final>>
    /\ UNCHANGED <<dvars, pvars, rvars, xvars, fvars, svars>>

\* a wrong precedence: the plant-side value first
CoalescePlantFirst(operator_side, plant_side) ==
    IF IsNa(plant_side) THEN operator_side ELSE plant_side

\* operator_side.fillna(plant_side)
Coalesce(operator_side, plant_side) ==
    IF IsNa(operator_side) THEN plant_side ELSE operator_side

\* one row of plants_final: the suffixed columns of the merge coalesced
EnhancedRow(p, c) ==
    [operator_id |-> p.operator_id,
     operator_name |-> Coalesce(c["market_actor_name"], p.market_actor_name),
     operator_email |-> Coalesce(c["email"], p.email),
     operator_phone |-> Coalesce(c["phone"], p.phone),
     operator_website |-> c["website"]]

NullSheetRow ==
    [market_actor_id |-> NaN, market_actor_name |-> NaN, email |-> NaN,
     phone |-> NaN, website |-> NaN]

RECURSIVE CrossMerge(_, _)
\* plants_df.merge(operators_df[...], left_on='operator_id',
\* right_on='market_actor_id', how='left', suffixes=('_plant', '_operator'))
\* followed by the three fillna columns and the column selection
CrossMerge(left, right) ==
    IF left = <<>> THEN <<>>
    ELSE LET p == Head(left)
             m == Matches(right, p.operator_id)
         IN (IF m = <<>> THEN <<EnhancedRow(p, NullSheetRow)>>
             ELSE [i \in DOMAIN m |-> EnhancedRow(p, m[i])])
            \o CrossMerge(Tail(left), right)

CrossReference ==
    /\ epc = "merge"
    /\ plants_final' = CrossMerge(plants_df, operators_df)
    /\ epc' = "done"
    /\ UNCHANGED <<operators_df, plants_df>>
    /\ UNCHANGED <<dvars, pvars, rvars, xvars, fvars, svars>>

EnhanceInit ==
    /\ epc = "extract"
    /\ operators_df = <<>>
    /\ plants_df = <<>>
    /\ plants_final = <<>>
    /\ DedupIdle
    /\ PipelineIdle
    /\ ResolverIdle
    /\ SaveIdle
    /\ FetchIdle
    /\ SoapIdle

EnhanceNext == ExtractOperators \/ LoadJoined \/ CrossReference

SpecEnhance == EnhanceInit /\ [][EnhanceNext]_vars

----------------------------------------------------------------------------
\* ContactBuilder._scrape_missing, _try_plain, _try_selenium, _extract

\* rows of the operator table handed to the resolver
\* website is "" in every row when the source had no Webseite column (the
\* column is then filled with ""), else a cell of the source
ScrapeRows ==
    [email : {NaN, <<"e">>}, phone : {NaN}, website : {NaN, Empty, <<"w">>}]

\* the key and the name of the row at position i: the table comes from
\* _deduplicate, so no two rows share a key
KeyedRow(i) ==
    [market_actor_id |-> <<"M", ToString(i)>>, market_actor_name |-> <<"n">>]

ScrapeTables ==
    {[i \in DOMAIN t |-> t[i] @@ KeyedRow(i)] :
        t \in {u \in UNION {[1..n -> ScrapeRows] : n \in 0..MaxRecs} :
                  \/ \A i \in DOMAIN u : u[i].website = Empty
                  \/ \A i \in DOMAIN u : u[i].website # Empty}}

\* (df.email.isna() | (df.email == "")) & (df.phone.isna() | (df.phone == ""))
\* & df.website.notna()
Mask(row) ==
    /\ (IsNa(row.email) \/ row.email = Empty)
    /\ (IsNa(row.phone) \/ row.phone = Empty)
    /\ ~IsNa(row.website)

RECURSIVE MaskedPositions(_, _)
\* df[mask]: the positions of the selected rows, in table order
MaskedPositions(df, i) ==
    IF i > Len(df) THEN <<>>
    ELSE (IF Mask(df[i]) THEN <<i>> ELSE <<>>) \o MaskedPositions(df, i + 1)

\* for suf in ("", "/impressum", "/kontakt")
Suffixes == <<"", "/impressum", "/kontakt">>

Https == <<"h", "t", "t", "p", "s", ":", "/", "/">>

RECURSIVE RStripSlash(_)
\* str.rstrip("/")
RStripSlash(s) ==
    IF s # <<>> /\ s[Len(s)] = "/" THEN RStripSlash(SubSeq(s, 1, Len(s) - 1))
    ELSE s

\* str.startswith("http")
StartsWithHttp(s) == Len(s) >= 4 /\ SubSeq(s, 1, 4) = SubSeq(Https, 1, 4)

\* base = str(row.website).rstrip("/"); prefixed with "https://" unless it
\* starts with "http"
Base(website) ==
    LET b == RStripSlash(PyStr(website))
    IN IF StartsWithHttp(b) THEN b ELSE Https \o b

\* what requests.get does: raise requests.RequestException, raise another
\* error, or return a response; email and phone are the first matches of
\* EMAIL_RE and PHONE_RE in the response text (None without a match)
PlainOutcomes ==
    [kind : {"reqexc", "crash"}, ok : {FALSE}, html : {FALSE}, email : {None}, phone : {None}]
    \cup
    [kind : {"resp"}, ok : BOOLEAN, html : BOOLEAN,
     email : {None, <<"x">>}, phone : {None, <<"7">>}]

\* requests.get(base + suf): a URL without a host is refused with
\* requests.exceptions.InvalidURL before anything is sent
PlainOutcomesFor(base) ==
    IF base = Https THEN {o \in PlainOutcomes : o.kind = "reqexc"}
    ELSE PlainOutcomes

\* what driver.get / driver.page_source do: raise, or give a page
BrowserOutcomes ==
    [kind : {"exc"}, email : {None}, phone : {None}]
    \cup
    [kind : {"page"}, email : {None, <<"x">>}, phone : {None, <<"7">>}]

\* driver.get(base): without a host there is no page of the operator, the
\* call raises or the browser shows its own error page
BrowserOutcomesFor(base) ==
    IF base = Https
    THEN {o \in BrowserOutcomes : o.email = None /\ o.phone = None}
    ELSE BrowserOutcomes

\* a slip: the content type is not looked at
AcceptedOkOnly(o) == o.kind = "resp" /\ o.ok

\* r.ok and "text/html" in r.headers.get("content-type", "")
Accepted(o) == o.kind = "resp" /\ o.ok /\ o.html

\* a slip: both an email and a phone are required to stop
FoundBoth(email, phone) == email # None /\ phone # None

\* if email or phone:
Found(email, phone) == email # None \/ phone # None

\* a slip: the cells are assigned whether or not something was extracted
WriteContactAlways(df, idx, email, phone) ==
    [df EXCEPT ![idx] = [@ EXCEPT !.email = email, !.phone = phone]]

\* if email: df.at[idx, "email"] = email; if phone: df.at[idx, "phone"] = phone
WriteContact(df, idx, email, phone) ==
    [df EXCEPT ![idx] =
        [@ EXCEPT !.email = IF email # None THEN email ELSE @,
                  !.phone = IF phone # None THEN phone ELSE @]]

ResolverInit ==
    /\ rpc = "select"
    /\ scrape \in BOOLEAN
    /\ selenium \in BOOLEAN
    /\ rdf \in ScrapeTables
    /\ subset = <<>>
    /\ ri = 1
    /\ suf = 1
    /\ resp = [kind |-> "none"]
    /\ driver = "none"
    /\ sessions = 0
    /\ log = <<>>
    /\ DedupIdle
    /\ PipelineIdle
    /\ EnhanceIdle
    /\ SaveIdle
    /\ FetchIdle
    /\ SoapIdle

\* build with the scrape toggle off: _scrape_missing is not called
SkipScrape ==
    /\ rpc = "select"
    /\ ~scrape
    /\ rpc' = "done"
    /\ UNCHANGED <<scrape, selenium, rdf, subset, ri, suf, resp, driver, sessions, log>>
    /\ UNCHANGED <<dvars, pvars, evars, xvars, fvars, svars>>

\* if self.scrape: mask = ...; subset = df[mask].copy()
SelectSubset ==
    /\ rpc = "select"
    /\ scrape
    /\ subset' = MaskedPositions(rdf, 1)
    /\ rpc' = "driver"
    /\ UNCHANGED <<scrape, selenium, rdf, ri, suf, resp, driver, sessions, log>>
    /\ UNCHANGED <<dvars, pvars, evars, xvars, fvars, svars>>

\* optional Selenium: webdriver.Chrome(options=opts), or None when the
\* toggle is off or the browser cannot be started
CreateDriver ==
    /\ rpc = "driver"
    /\ IF selenium
       THEN \E started \in BOOLEAN :
                IF started
                THEN /\ driver' = "open"
                     /\ sessions' = sessions + 1
                     /\ log' = Append(log, [ev |-> "create", idx |-> 0, suf |-> 0,
                                            email |-> FALSE, phone |-> FALSE])
                ELSE UNCHANGED <<driver, sessions, log>>
       ELSE UNCHANGED <<driver, sessions, log>>
    /\ rpc' = "loop"
    /\ UNCHANGED <<scrape, selenium, rdf, subset, ri, suf, resp>>
    /\ UNCHANGED <<dvars, pvars, evars, xvars, fvars, svars>>

\* head of "for idx, row in subset.iterrows()"
LoopHead ==
    /\ rpc = "loop"
    /\ IF ri <= Len(subset)
       THEN rpc' = "plain" /\ suf' = 1
       ELSE rpc' = "quit" /\ suf' = suf
    /\ UNCHANGED <<scrape, selenium, rdf, subset, ri, resp, driver, sessions, log>>
    /\ UNCHANGED <<dvars, pvars, evars, xvars, fvars, svars>>

\* one iteration of the suffix loop of _try_plain, and what follows its
\* return in _scrape_missing
PlainFetch ==
    /\ rpc = "plain"
    /\ \E o \in PlainOutcomesFor(Base(rdf[subset[ri]].website)) :
        LET idx == subset[ri]
            email == IF Accepted(o) THEN o.email ELSE None
            phone == IF Accepted(o) THEN o.phone ELSE None
        IN
        /\ log' = Append(log, [ev |-> "plain", idx |-> idx, suf |-> suf,
                               email |-> email # None, phone |-> phone # None])
        /\ resp' = o
        /\ IF o.kind = "crash"
           THEN /\ rpc' = "crashed"
                /\ UNCHANGED <<rdf, ri, suf>>
           ELSE IF Accepted(o) /\ Found(email, phone)
           THEN /\ rdf' = WriteContact(rdf, idx, email, phone)
                /\ ri' = ri + 1
                /\ rpc' = "loop"
                /\ suf' = suf
           ELSE IF suf < Len(Suffixes)
           THEN /\ suf' = suf + 1
                /\ UNCHANGED <<rdf, ri, rpc>>
           ELSE /\ rpc' = IF driver = "open" THEN "browser" ELSE "sleep"
                /\ UNCHANGED <<rdf, ri, suf>>
    /\ UNCHANGED <<scrape, selenium, subset, driver, sessions>>
    /\ UNCHANGED <<dvars, pvars, evars, xvars, fvars, svars>>

\* _try_selenium: every exception is swallowed
BrowserFetch ==
    /\ rpc = "browser"
    /\ \E o \in BrowserOutcomesFor(Base(rdf[subset[ri]].website)) :
        LET idx == subset[ri] IN
        /\ log' = Append(log, [ev |-> "browser", idx |-> idx, suf |-> 0,
                               email |-> o.email # None, phone |-> o.phone # None])
        /\ rdf' = WriteContact(rdf, idx, o.email, o.phone)
    /\ rpc' = "sleep"
    /\ UNCHANGED <<scrape, selenium, subset, ri, suf, resp, driver, sessions>>
    /\ UNCHANGED <<dvars, pvars, evars, xvars, fvars, svars>>

\* time.sleep(1.5) at the end of the loop body
Sleep ==
    /\ rpc = "sleep"
    /\ log' = Append(log, [ev |-> "sleep", idx |-> subset[ri], suf |-> 0,
                           email |-> FALSE, phone |-> FALSE])
    /\ ri' = ri + 1
    /\ rpc' = "loop"
    /\ UNCHANGED <<scrape, selenium, rdf, subset, suf, resp, driver, sessions>>
    /\ UNCHANGED <<dvars, pvars, evars, xvars, fvars, svars>>

\* if driver: driver.quit(); return df
QuitDriver ==
    /\ rpc = "quit"
    /\ IF driver = "open"
       THEN /\ driver' = "closed"
            /\ log' = Append(log, [ev |-> "quit", idx |-> 0, suf |-> 0,
                                   email |-> FALSE, phone |-> FALSE])
       ELSE UNCHANGED <<driver, log>>
    /\ rpc' = "done"
    /\ UNCHANGED <<scrape, selenium, rdf, subset, ri, suf, resp, sessions>>
    /\ UNCHANGED <<dvars, pvars, evars, xvars, fvars, svars>>

ResolverNext ==
    SkipScrape \/ SelectSubset \/ CreateDriver \/ LoopHead \/ PlainFetch \/ BrowserFetch
        \/ Sleep \/ QuitDriver

SpecResolver == ResolverInit /\ [][ResolverNext]_vars

----------------------------------------------------------------------------
\* ContactBuilder._save_xlsx

\* keys of the rows of the table to write: the table comes from
\* _deduplicate, so no two rows share a key
SaveIds == {<<"M", ToString(i)>> : i \in 1..MaxSaveRows}

SaveTables ==
    {t \in UNION {[1..n -> [market_actor_id : SaveIds]] : n \in 0..MaxSaveRows} :
        \A i, j \in DOMAIN t : i # j => t[i] # t[j]}

\* a slip: the slice runs one row into the next sheet
IlocInclusive(df, i) ==
    SubSeq(df, i + 1, IF i + MAXROWS_XLSX + 1 <= Len(df)
                      THEN i + MAXROWS_XLSX + 1 ELSE Len(df))

\* df.iloc[i:i+MAXROWS_XLSX]
Iloc(df, i) ==
    SubSeq(df, i + 1, IF i + MAXROWS_XLSX <= Len(df)
                      THEN i + MAXROWS_XLSX ELSE Len(df))

\* f"contacts_{i//MAXROWS_XLSX+1}"
SheetName(i) == <<"contacts_", (i \div MAXROWS_XLSX) + 1>>

SaveInit ==
    /\ xpc = "save"
    /\ xdf \in SaveTables
    /\ xi = 0
    /\ sheets = <<>>
    /\ DedupIdle
    /\ PipelineIdle
    /\ EnhanceIdle
    /\ ResolverIdle
    /\ FetchIdle
    /\ SoapIdle

\* one iteration of "for i in range(0, len(df), MAXROWS_XLSX)": to_excel
\* adds the sheet, or raises and the error leaves _save_xlsx
WriteSheet ==
    /\ xpc = "save"
    /\ xi < Len(xdf)
    /\ \E ok \in BOOLEAN :
        IF ok
        THEN /\ sheets' = Append(sheets, [name |-> SheetName(xi),
                                          rows |-> Iloc(xdf, xi)])
             /\ xi' = xi + MAXROWS_XLSX
             /\ xpc' = xpc
        ELSE /\ xpc' = "failed"
             /\ UNCHANGED <<xi, sheets>>
    /\ UNCHANGED xdf
    /\ UNCHANGED <<dvars, pvars, evars, rvars, fvars, svars>>

\* the range is exhausted: leaving the with-block closes the writer, which
\* writes the file or raises
CloseWriter ==
    /\ xpc = "save"
    /\ xi >= Len(xdf)
    /\ \E ok \in BOOLEAN : xpc' = IF ok THEN "done" ELSE "failed"
    /\ UNCHANGED <<xdf, xi, sheets>>
    /\ UNCHANGED <<dvars, pvars, evars, rvars, fvars, svars>>

SaveNext == WriteSheet \/ CloseWriter

SpecSave == SaveInit /\ [][SaveNext]_vars

----------------------------------------------------------------------------
\* MaStrFetcher.fetch_all(method="bulk"), _copy_exported_files,
\* _manual_export, _create_empty_files

\* tables_to_export
tables_to_export == <<"biomass", "gas_producer">>

\* the keys of file_mapping, in order
file_mapping == <<"market_actors", "biomass", "gas_producer", "locations">>

\* dataset_priorities: the keys in order, and the tables tried for each
PriorityKeys == <<"biomass", "gas_producer", "market_actors", "locations">>

dataset_priorities ==
    [biomass |-> <<"biomass_extended", "biomass_eeg", "biomass", "Biomasse">>,
     gas_producer |-> <<"gas_producer", "gas", "Gas">>,
     market_actors |-> <<"market_actors", "market", "Marktakteure">>,
     locations |-> <<"locations_extended", "locations_basic", "location", "Lokationen">>]

\* tables the local database can hold
DatabaseTables ==
    {"biomass_extended", "biomass_eeg", "gas_producer", "market_actors",
     "locations_extended"}

\* a slip: only the two plant files are put into the mapping
CreateEmptyFilesPlantsOnly ==
    [k \in DatasetKeys |->
        IF k \in {"biomass", "gas_producer"} THEN "empty" ELSE "none"]

\* _create_empty_files: untouched plant files, header-only files for the
\* market actors and the locations
CreateEmptyFiles ==
    [k \in DatasetKeys |->
        IF k \in {"biomass", "gas_producer"} THEN "empty" ELSE "header"]

FetchInit ==
    /\ fpc = "download"
    /\ fds = 1
    /\ ftab = 1
    /\ available_tables = {}
    /\ result_paths = [k \in DatasetKeys |-> "none"]
    /\ failures = {}
    /\ export_csv \in BOOLEAN
    /\ DedupIdle
    /\ PipelineIdle
    /\ EnhanceIdle
    /\ ResolverIdle
    /\ SaveIdle
    /\ SoapIdle

\* self.db.download(method="bulk", data=data_types); an error is printed
\* and raised again; without export_csv the result is the empty mapping
Download ==
    /\ fpc = "download"
    /\ \E ok \in BOOLEAN :
        IF ok THEN /\ fpc' = IF export_csv THEN "export" ELSE "returned"
                   /\ failures' = failures
        ELSE fpc' = "raised" /\ failures' = failures \cup {<<"download">>}
    /\ UNCHANGED <<fds, ftab, available_tables, result_paths>>
    /\ UNCHANGED export_csv
    /\ UNCHANGED <<dvars, pvars, evars, rvars, xvars, svars>>

\* self.db.to_csv(tables=tables_to_export); on an error _manual_export is
\* called
Export ==
    /\ fpc = "export"
    /\ \E ok \in BOOLEAN :
        IF ok THEN fpc' = "copy" /\ failures' = failures
        ELSE fpc' = "list" /\ failures' = failures \cup {<<"export">>}
    /\ UNCHANGED <<fds, ftab, available_tables, result_paths>>
    /\ UNCHANGED export_csv
    /\ UNCHANGED <<dvars, pvars, evars, rvars, xvars, svars>>

\* _copy_exported_files: without a dataversion directory the result is
\* _create_empty_files()
FindExportDir ==
    /\ fpc = "copy"
    /\ \E found \in BOOLEAN :
        IF found
        THEN /\ fpc' = "copyfile"
             /\ UNCHANGED <<result_paths, failures>>
        ELSE /\ fpc' = "returned"
             /\ result_paths' = CreateEmptyFiles
             /\ failures' = failures \cup
                    {<<"missing", tables_to_export[i]>> : i \in DOMAIN tables_to_export}
    /\ fds' = 1
    /\ UNCHANGED <<ftab, available_tables>>
    /\ UNCHANGED export_csv
    /\ UNCHANGED <<dvars, pvars, evars, rvars, xvars, svars>>

\* one iteration of "for key, filename in file_mapping.items()": the file is
\* copied, or an empty file is created in its place
CopyFile ==
    /\ fpc = "copyfile"
    /\ LET key == file_mapping[fds] IN
       \E exists \in BOOLEAN :
        IF exists
        THEN /\ result_paths' = [result_paths EXCEPT ![key] = "copied"]
             /\ failures' = failures
        ELSE /\ result_paths' = [result_paths EXCEPT ![key] = "empty"]
             /\ failures' = failures \cup {<<"missing", key>>}
    /\ IF fds < Len(file_mapping)
       THEN fds' = fds + 1 /\ fpc' = fpc
       ELSE fds' = fds /\ fpc' = "returned"
    /\ UNCHANGED <<ftab, available_tables>>
    /\ UNCHANGED export_csv
    /\ UNCHANGED <<dvars, pvars, evars, rvars, xvars, svars>>

\* _manual_export: available_tables = self.get_available_tables(); the
\* query is in no try, an error leaves fetch_all
ListTables ==
    /\ fpc = "list"
    /\ \E ok \in BOOLEAN :
        IF ok
        THEN /\ \E tables \in SUBSET DatabaseTables : available_tables' = tables
             /\ fpc' = "manual"
        ELSE /\ fpc' = "raised"
             /\ available_tables' = available_tables
    /\ fds' = 1
    /\ ftab' = 1
    /\ UNCHANGED <<result_paths, failures>>
    /\ UNCHANGED export_csv
    /\ UNCHANGED <<dvars, pvars, evars, rvars, xvars, svars>>

\* the position after the dataset at fds has been settled
NextDataset ==
    /\ ftab' = 1
    /\ IF fds < Len(PriorityKeys)
       THEN fds' = fds + 1 /\ fpc' = fpc
       ELSE fds' = fds /\ fpc' = "returned"

\* one iteration of "for table_name in table_priority" of _manual_export,
\* with the fallback after the loop; once every dataset has a path the
\* two later loops of _manual_export change nothing
ManualTable ==
    /\ fpc = "manual"
    /\ LET key == PriorityKeys[fds]
           table_priority == dataset_priorities[key]
       IN IF ftab > Len(table_priority)
          THEN /\ result_paths' = [result_paths EXCEPT ![key] = "empty"]
               /\ failures' = failures
               /\ NextDataset
          ELSE IF table_priority[ftab] \in available_tables
          THEN \E ok \in BOOLEAN :
                IF ok
                THEN /\ result_paths' = [result_paths EXCEPT ![key] = "exported"]
                     /\ failures' = failures
                     /\ NextDataset
                ELSE /\ ftab' = ftab + 1
                     /\ failures' = failures \cup {<<"table", table_priority[ftab]>>}
                     /\ UNCHANGED <<fpc, fds, result_paths>>
          ELSE /\ ftab' = ftab + 1
               /\ UNCHANGED <<fpc, fds, result_paths, failures>>
    /\ UNCHANGED available_tables
    /\ UNCHANGED export_csv
    /\ UNCHANGED <<dvars, pvars, evars, rvars, xvars, svars>>

FetchNext ==
    Download \/ Export \/ FindExportDir \/ CopyFile \/ ListTables \/ ManualTable

SpecFetch == FetchInit /\ [][FetchNext]_vars

----------------------------------------------------------------------------
\* SOAPStreamer._paged and SOAPStreamer._dump (src/tools/soap_stream.py)

\* a record of the service
SoapRecords == {"r1", "r2"}

\* what one call of fn can return: up to PageSize records (None counts as
\* the empty chunk)
Chunks == UNION {[1..n -> SoapRecords] : n \in 0..PageSize}

\* the service holds fewer than MaxPages full pages: the chunks the call
\* for the page number pg can return
ChunksAt(pg) ==
    IF pg < MaxPages - 1 THEN Chunks ELSE {c \in Chunks : Len(c) < PageSize}

\* a slip: the test for a short page is missing
ShortPageNever(chunk) == FALSE

\* if len(chunk) < self.page: break
ShortPage(chunk) == Len(chunk) < PageSize

SoapInit ==
    /\ spc = "dump"
    /\ path_exists \in BOOLEAN
    /\ page = 0
    /\ parts = <<>>
    /\ calls = <<>>
    /\ pages = <<>>
    /\ DedupIdle
    /\ PipelineIdle
    /\ EnhanceIdle
    /\ ResolverIdle
    /\ SaveIdle
    /\ FetchIdle

\* _dump up to the for loop: if path.exists(): return path; parts = [];
\* _paged starts with page = 0
DumpStart ==
    /\ spc = "dump"
    /\ spc' = IF path_exists THEN "done" ELSE "page"
    /\ page' = 0
    /\ parts' = <<>>
    /\ UNCHANGED <<path_exists, calls, pages>>
    /\ UNCHANGED <<dvars, pvars, evars, rvars, xvars, fvars>>

\* one iteration of "while True" of _paged with the parts.append(df) of
\* _dump: the call of fn, the test for an empty chunk, the yield, the test
\* for a short page, page += 1; an error of the call is caught nowhere
PagedCall ==
    /\ spc = "page"
    /\ page < MaxPages
    /\ calls' = Append(calls, page)
    /\ \E ok \in BOOLEAN :
        IF ok
        THEN \E chunk \in ChunksAt(page) :
                /\ pages' = Append(pages, chunk)
                /\ IF chunk = <<>>
                   THEN /\ spc' = "write"
                        /\ UNCHANGED <<parts, page>>
                   ELSE /\ parts' = Append(parts, chunk)
                        /\ IF ShortPage(chunk)
                           THEN spc' = "write" /\ page' = page
                           ELSE spc' = spc /\ page' = page + 1
        ELSE /\ spc' = "raised"
             /\ UNCHANGED <<pages, parts, page>>
    /\ UNCHANGED path_exists
    /\ UNCHANGED <<dvars, pvars, evars, rvars, xvars, fvars>>

\* pd.concat(parts).to_csv(path, index=False); return path -- pd.concat of
\* an empty list raises, and so can the write
WriteCsv ==
    /\ spc = "write"
    /\ \E ok \in BOOLEAN :
        IF ok /\ parts # <<>>
        THEN spc' = "done" /\ path_exists' = TRUE
        ELSE spc' = "raised" /\ path_exists' = path_exists
    /\ UNCHANGED <<page, parts, calls, pages>>
    /\ UNCHANGED <<dvars, pvars, evars, rvars, xvars, fvars>>

SoapNext == DumpStart \/ PagedCall \/ WriteCsv

SpecSoap == SoapInit /\ [][SoapNext]_vars

----------------------------------------------------------------------------
\* Claims about the Deduplicator (checked under SpecDedup)

\* a cell that carries no contact: missing in the source or the empty string
NoSignal(v) == IsNa(v) \/ v = Empty

\* the retention predicate of the specification: at least one of email,
\* phone, website is non-empty
HasContact(row) ==
    ~NoSignal(row["email"]) \/ ~NoSignal(row["phone"]) \/ ~NoSignal(row["website"])

\* C1: after any sequence of chunks the deduplicated operator table holds
\* at most one row per distinct market_actor_id.
C1_OneRowPerKey ==
    dpc = "done" =>
        \A i, j \in DOMAIN table :
            table[i]["market_actor_id"] = table[j]["market_actor_id"] => i = j

\* C1 witness: two retained rows with the same id were fed and the table
\* holds that id.
C1_Witness ==
    /\ dpc = "done"
    /\ \E i, j \in DOMAIN fed :
        /\ i < j
        /\ fed[i]["market_actor_id"] = fed[j]["market_actor_id"]
        /\ fed[i] # fed[j]
        /\ Retained(fed[i]) /\ Retained(fed[j])
        /\ \E t \in DOMAIN table :
            table[t]["market_actor_id"] = fed[i]["market_actor_id"]

\* position in the feed of the first row with key k that has a contact
FirstWithContact(k) ==
    CHOOSE i \in DOMAIN fed :
        /\ fed[i]["market_actor_id"] = k /\ HasContact(fed[i])
        /\ \A j \in 1..(i - 1) :
            ~(fed[j]["market_actor_id"] = k /\ HasContact(fed[j]))

\* C2: every retained row is the first row in feed order that has its key
\* and satisfies the retention predicate (at least one contact field
\* non-empty); rows failing the predicate never occupy the key.
C2_FirstWriteWins ==
    dpc = "done" =>
        \A t \in DOMAIN table :
            LET k == table[t]["market_actor_id"] IN
            /\ \E i \in DOMAIN fed :
                fed[i]["market_actor_id"] = k /\ HasContact(fed[i])
            /\ table[t] = fed[FirstWithContact(k)]

\* C3: a source row whose email, phone and website are all empty is absent
\* from the table; every retained actor has at least one of them non-empty.
C3_Retention ==
    dpc = "done" => \A t \in DOMAIN table : HasContact(table[t])

----------------------------------------------------------------------------
\* Claims about the pipeline (checked under SpecPipeline)

\* the plant columns of a joined row
PlantPart(m) ==
    [plant_id |-> m.plant_id,
     commissioning_year |-> m.commissioning_year,
     capacity_el_kW |-> m.capacity_el_kW,
     capacity_gas |-> m.capacity_gas,
     operator_id |-> m.operator_id,
     latitude |-> m.latitude,
     longitude |-> m.longitude,
     plant_type |-> m.plant_type]

\* C4: the joined table has exactly as many rows as the plant table and its
\* i-th row is the i-th plant row (no fan-out, no row loss), whatever the
\* operator table holds.
C4_JoinCardinality ==
    ppc = "done" =>
        /\ Len(merged) = Len(plants)
        /\ \A i \in DOMAIN merged : i \in DOMAIN plants /\ PlantPart(merged[i]) = plants[i]

\* C4 witness: the market-actor extract repeats an id, a plant row matches
\* that id, and another plant row matches nothing.
C4_Witness ==
    /\ ppc = "done"
    /\ \E i, j \in DOMAIN opfeed :
        /\ i < j
        /\ opfeed[i]["market_actor_id"] = opfeed[j]["market_actor_id"]
        /\ \E p \in DOMAIN plants : plants[p].operator_id = opfeed[i]["market_actor_id"]
    /\ \E p \in DOMAIN plants : Matches(contacts, plants[p].operator_id) = <<>>

\* the first row of the enriched feed that has plant id k
FirstPlant(k) ==
    LET feed == Concat(all_dfs) IN
    feed[CHOOSE i \in DOMAIN feed :
            feed[i].plant_id = k /\ \A j \in 1..(i - 1) : feed[j].plant_id # k]

\* C5: the plants output table holds at most one row per plant_id, and it
\* is the first row with that unit id in feed order.
C5_PlantDedup ==
    ppc \in {"merge", "done"} =>
        /\ \A i, j \in DOMAIN plants : plants[i].plant_id = plants[j].plant_id => i = j
        /\ \A i \in DOMAIN plants : plants[i] = FirstPlant(plants[i].plant_id)

\* C7: a plant row whose operator_id equals no market_actor_id of the
\* operator table appears in the joined table, with every operator field
\* null and its plant fields unchanged.
C7_LeftJoinNullFill ==
    ppc = "done" =>
        \A i \in DOMAIN plants :
            Matches(contacts, plants[i].operator_id) = <<>> =>
                /\ \E j \in DOMAIN merged : PlantPart(merged[j]) = plants[i]
                /\ \A j \in DOMAIN merged :
                    PlantPart(merged[j]) = plants[i] =>
                        \A c \in OperatorColumns : merged[j][c] = NaN

\* C7 witness: the operator table is not empty, one plant row has no match
\* in it and another plant row has one.
C7_Witness ==
    /\ ppc = "done"
    /\ contacts # <<>>
    /\ \E i, j \in DOMAIN plants :
        /\ Matches(contacts, plants[i].operator_id) = <<>>
        /\ Matches(contacts, plants[j].operator_id) # <<>>
        /\ \E m \in DOMAIN merged : PlantPart(merged[m]) = plants[i]

----------------------------------------------------------------------------
\* Claims about the cross-reference join (checked under SpecEnhance)

\* the operator row matched to the i-th plant row, or the all-null row
MatchedOperator(i) ==
    LET m == Matches(operators_df, plants_df[i].operator_id)
    IN IF m = <<>> THEN NullSheetRow ELSE m[1]

----------------------------------------------------------------------------
\* Claims about the Contact Resolver (checked under SpecResolver)

IsFetch(e) == e.ev \in {"plain", "browser"}

\* C8: once a plain fetch for a record has yielded an email or a phone, no
\* further request (plain or browser) is made for that record.
C8_StopAtFirstSuccess ==
    \A i, j \in DOMAIN log :
        (i < j /\ log[i].ev = "plain" /\ (log[i].email \/ log[i].phone))
            => ~(IsFetch(log[j]) /\ log[j].idx = log[i].idx)

\* C8 witness: with a browser session open, a record got its first hit at
\* /impressum and a later record has been fetched since.
C8_Witness ==
    /\ driver = "open"
    /\ \E i, j \in DOMAIN log :
        /\ i < j
        /\ log[i].ev = "plain" /\ Suffixes[log[i].suf] = "/impressum"
        /\ log[i].email
        /\ IsFetch(log[j]) /\ log[j].idx # log[i].idx

\* C9: between the last request of one record and the first request of the
\* next record the per-record delay is applied, however the first record
\* ended (plain hit, browser, or nothing found).
C9_DelayBetweenRecords ==
    \A j \in DOMAIN log :
        (j > 1 /\ IsFetch(log[j]) /\ IsFetch(log[j - 1]))
            => log[j].idx = log[j - 1].idx

\* C10: at most one browser session is created per pass and no final state,
\* normal or after an error escaped the record loop, leaves it open.
C10_SessionReleased ==
    /\ sessions <= 1
    /\ rpc \in {"done", "crashed"} => driver # "open"

\* C11: an error of any kind raised while fetching for one record counts as
\* "no contact found" for it: the pass never aborts, and when it ends every
\* record of the subset has been fetched.
C11_FaultIsolation ==
    /\ rpc # "crashed"
    /\ rpc = "done" =>
         \A k \in DOMAIN subset :
             \E j \in DOMAIN log : IsFetch(log[j]) /\ log[j].idx = subset[k]

\* C12: every fetch is for a record that, when the fetch is issued, has no
\* email, no phone and a non-empty website.
C12_FetchOnlySelected ==
    [][(Len(log') = Len(log) + 1 /\ IsFetch(log'[Len(log')]))
         => LET row == rdf[log'[Len(log')].idx]
            IN /\ NoSignal(row.email)
               /\ NoSignal(row.phone)
               /\ ~NoSignal(row.website)]_vars

\* the plain fetches of one record go through the suffixes in tuple order
SuffixOrder(lg) ==
    \A j \in DOMAIN lg :
        lg[j].ev = "plain" =>
            IF j > 1 /\ lg[j - 1].ev = "plain" /\ lg[j - 1].idx = lg[j].idx
            THEN lg[j].suf = lg[j - 1].suf + 1
            ELSE Suffixes[lg[j].suf] = ""

\* C13: the plain tier requests base, base/impressum, base/kontakt in that
\* order; a request that failed, or whose response is unsuccessful or not
\* HTML, leaves the table as it was and is followed by the next suffix.
C13_PlainOrderAndAcceptance ==
    [][/\ SuffixOrder(log')
       /\ Suffixes = <<"", "/impressum", "/kontakt">>
       /\ (/\ rpc = "plain"
           /\ resp'.kind \in {"resp", "reqexc"}
           /\ ~(resp'.kind = "resp" /\ resp'.ok /\ resp'.html))
          => /\ rdf' = rdf
             /\ ~log'[Len(log')].email /\ ~log'[Len(log')].phone
             /\ suf < Len(Suffixes)
                  => rpc' = "plain" /\ suf' = suf + 1 /\ ri' = ri]_vars

\* C13 witness: a record whose first two plain requests gave a non-HTML
\* response and a refused one got its email from an accepted /kontakt page.
C13_Witness ==
    /\ Len(log) >= 3
    /\ LET n == Len(log) IN
        /\ log[n].ev = "plain" /\ Suffixes[log[n].suf] = "/kontakt"
        /\ log[n].email
        /\ resp.kind = "resp" /\ resp.ok /\ resp.html
        /\ rdf[log[n].idx].email = <<"x">>
        /\ log[n - 1].ev = "plain" /\ log[n - 1].idx = log[n].idx
        /\ log[n - 2].ev = "plain" /\ log[n - 2].idx = log[n].idx

----------------------------------------------------------------------------
\* Claims about the Sink Writer (checked under SpecSave)

CeilDiv(n, m) == (n + m - 1) \div m

\* C14: a table of n rows is written as ceil(n / MAXROWS_XLSX) sheets named
\* contacts_1, contacts_2, ... in order; no sheet holds more than
\* MAXROWS_XLSX rows and every sheet but the last holds exactly that many;
\* MAXROWS_XLSX + 1 rows give two sheets with a full first one.
C14_SheetSharding ==
    xpc = "done" =>
        LET n == Len(xdf)
            k == Len(sheets)
        IN /\ k = CeilDiv(n, MAXROWS_XLSX)
           /\ \A j \in 1..k :
                /\ sheets[j].name = <<"contacts_", j>>
                /\ Len(sheets[j].rows) <= MAXROWS_XLSX
                /\ j < k => Len(sheets[j].rows) = MAXROWS_XLSX
           /\ n = MAXROWS_XLSX + 1 =>
                k = 2 /\ Len(sheets[1].rows) = MAXROWS_XLSX

\* C14 witness: a table of one row more than a sheet holds has been written.
C14_Witness ==
    /\ xpc = "done"
    /\ Len(xdf) = MAXROWS_XLSX + 1
    /\ Len(sheets) = 2
    /\ Len(sheets[2].rows) = 1

----------------------------------------------------------------------------
\* Claims about the chunked scans (SpecPlants, SpecDedup) and about output
\* errors (SpecPipeline)

\* the plant_type _enrich gives the rows of a source
TypeOf(src) == IF src = "biomass" THEN "biogas" ELSE "gas"

\* C15: a source whose chunks carry none of the expected column names
\* contributes no row to the output table.
C15_MalformedChunkSkip ==
    \A src \in {"biomass", "gas"} :
        phdr[src] \cap DOMAIN plant_column_mapping(src = "biomass") = {}
            => \A i \in DOMAIN Concat(all_dfs) :
                   Concat(all_dfs)[i].plant_type # TypeOf(src)

\* C16: the step at which reading or processing a chunk raises does not end
\* the scan: the reader goes on with the next chunk.
C16_ChunkErrorTolerated ==
    [][(~derr /\ derr') => dpc' = "read"]_vars

\* the stages whose output file comes after f in the run
LaterFiles(f) ==
    IF f = "contacts_xlsx" THEN {"plants_csv", "join_csv"}
    ELSE IF f = "plants_csv" THEN {"join_csv"}
    ELSE {}

\* a failed write has ended the run and nothing after it has been written
WriteErrorFatal(pc, fs) ==
    \A f \in OutputFiles :
        fs[f] = "broken" =>
            /\ pc = "failed"
            /\ \A g \in LaterFiles(f) : fs[g] = "absent"

\* C18: a failed write of an output file ends the run at once (the error
\* reaches the caller of build_database), no later stage runs, and the files
\* written before stay as written.
C18_FatalOutputErrors ==
    [][/\ ppc # "failed"
       /\ WriteErrorFatal(ppc', files')
       /\ \A f \in OutputFiles : files[f] = "written" => files'[f] = "written"]_vars

\* C18 witness: the plants file could not be written after the workbook had
\* been written; the run has ended without a joined file.
C18_Witness ==
    /\ ppc = "failed"
    /\ files["contacts_xlsx"] = "written"
    /\ files["plants_csv"] = "broken"
    /\ files["join_csv"] = "absent"
    /\ all_dfs # <<>>

\* C20: in every output plant row both capacities are non-negative integers
\* and the commissioning year is an integer.
C20_CapacityYearDomains ==
    \A i \in DOMAIN Concat(all_dfs) :
        LET row == Concat(all_dfs)[i]
        IN /\ row.capacity_el_kW \in Nat
           /\ row.capacity_gas \in Nat
           /\ row.commissioning_year \in Int

----------------------------------------------------------------------------
\* Claims about the acquisition of the extracts (checked under SpecFetch)

\* the failures of the claim: the download, the CSV export, or an expected
\* exported file that is not there
AcquisitionFailed ==
    \/ <<"download">> \in failures
    \/ <<"export">> \in failures
    \/ \E i \in DOMAIN tables_to_export : <<"missing", tables_to_export[i]>> \in failures

\* C19: once the acquisition of an extract has failed, fetch_all has raised:
\* it is not trying another way to get the extract and it hands no file made
\* up in place of a missing one to the pipeline.
C19_AcquisitionFatal ==
    AcquisitionFailed =>
        /\ fpc = "raised"
        /\ \A k \in DatasetKeys : result_paths[k] \notin {"empty", "header"}

----------------------------------------------------------------------------
\* Claims about the plant rows (checked under SpecPlants)

\* C21: the rows a source adds to the output carry the plant_type of that
\* source (biogas for the biomass extract, gas for the gas-producer
\* extract); a biomass row has gas capacity 0 and a gas-producer row has
\* electrical capacity 0, whatever the header of the extract is.
C21_Provenance ==
    [][(ppc \in {"biomass", "gas"} /\ Len(all_dfs') = Len(all_dfs) + 1)
         => \A i \in DOMAIN all_dfs'[Len(all_dfs')] :
              LET row == all_dfs'[Len(all_dfs')][i]
              IN /\ row.plant_type = IF ppc = "biomass" THEN "biogas" ELSE "gas"
                 /\ ppc = "biomass" => row.capacity_gas = 0
                 /\ ppc = "gas" => row.capacity_el_kW = 0]_vars

\* C21 witness: a biomass extract that also carries an Erzeugungsleistung
\* column gave a biogas row with its electrical capacity, and the
\* gas-producer extract gave a gas row with its gas capacity.
C21_Witness ==
    /\ "Erzeugungsleistung" \in phdr["biomass"]
    /\ \E i, j \in DOMAIN Concat(all_dfs) :
        /\ Concat(all_dfs)[i].plant_type = "biogas"
        /\ Concat(all_dfs)[i].capacity_el_kW = 500
        /\ Concat(all_dfs)[i].capacity_gas = 0
        /\ Concat(all_dfs)[j].plant_type = "gas"
        /\ Concat(all_dfs)[j].capacity_gas = 500
        /\ Concat(all_dfs)[j].capacity_el_kW = 0

HasWhitespace(x) == \E i \in DOMAIN x : x[i] \in Whitespace

\* C23: every output plant_id is lower-cased and holds no whitespace of any
\* kind, every output operator_id holds no whitespace, and normalizing an
\* output identifier again leaves it unchanged.
C23_IdentifierNormalForm ==
    \A i \in DOMAIN Concat(all_dfs) :
        LET row == Concat(all_dfs)[i]
        IN /\ row.plant_id = StrLower(row.plant_id)
           /\ ~HasWhitespace(row.plant_id)
           /\ ~HasWhitespace(row.operator_id)
           /\ StrLower(ReplaceSpace(row.plant_id)) = row.plant_id
           /\ RemoveWhitespace(row.operator_id) = row.operator_id

\* C25: the rows of an extract that carries Laengengrad and Breitengrad have
\* the numeric values of those cells as longitude and latitude.
C25_CoordinatesFromUnitData ==
    \A src \in {"biomass", "gas"} :
        CoordinateColumns \subseteq phdr[src]
            => \A i \in DOMAIN Concat(all_dfs) :
                 LET row == Concat(all_dfs)[i]
                 IN row.plant_type = TypeOf(src)
                      => /\ row.latitude \in {ToNumeric(v) : v \in LatitudeCells}
                         /\ row.longitude \in {ToNumeric(v) : v \in LongitudeCells}

----------------------------------------------------------------------------
\* Claims about the columns of the operator table (checked under SpecDedup)

\* C22: the table _deduplicate returns has the columns market_actor_id,
\* market_actor_name, email, phone, website in that order, whichever of them
\* the source carried.
C22_CanonicalColumnOrder ==
    dpc = "done" =>
        TableColumns(hdr, store) =
            <<"market_actor_id", "market_actor_name", "email", "phone", "website">>

----------------------------------------------------------------------------
\* Claims about the toggles and the frame of the Contact Resolver (checked
\* under SpecResolver)

SubsetSet == {subset[k] : k \in DOMAIN subset}

\* C24: with the scrape toggle off nothing is fetched, no browser session is
\* created and the table stays as the Deduplicator gave it, whatever the
\* selenium toggle is; with scrape on and no browser session, no browser
\* navigation happens and, when the pass has ended, every selected record
\* has had its plain fetch.
C24_Toggles ==
    [][/\ ~scrape => (rdf' = rdf /\ log' = <<>> /\ sessions' = 0 /\ driver' = "none")
       /\ (scrape /\ sessions' = 0)
            => /\ \A j \in DOMAIN log' : log'[j].ev # "browser"
               /\ rpc' \in {"done", "crashed"}
                    => \A k \in DOMAIN subset' :
                         \E j \in DOMAIN log' :
                            log'[j].ev = "plain" /\ log'[j].idx = subset'[k]]_vars

\* C27: a step of the pass changes only the email and the phone of a
\* selected record, and only to a non-empty extracted value; the number and
\* order of the rows and every other cell stay as they were.
C27_ResolverFrame ==
    [][/\ Len(rdf') = Len(rdf)
       /\ \A i \in DOMAIN rdf :
            rdf'[i] # rdf[i] =>
                /\ i \in SubsetSet
                /\ \A f \in DOMAIN rdf[i] \ {"email", "phone"} : rdf'[i][f] = rdf[i][f]
                /\ \A f \in {"email", "phone"} :
                     rdf'[i][f] # rdf[i][f] => rdf'[i][f] \notin {None, Empty, NaN}]_vars

\* C27 witness: the pass has ended; a selected record got an email, and a
\* record that was not selected is in the table.
C27_Witness ==
    /\ rpc = "done"
    /\ \E i, j \in DOMAIN rdf :
        /\ i \in SubsetSet /\ rdf[i].email = <<"x">> /\ rdf[i].phone = NaN
        /\ j \notin SubsetSet /\ rdf[j].email = <<"e">>

----------------------------------------------------------------------------
\* Claims about the mapping fetch_all returns (checked under SpecFetch)

\* C28: when the download has succeeded and the CSV export was asked for,
\* the mapping fetch_all returns has a path for each of the four datasets,
\* whichever way the files were obtained.
C28_CompletePathMap ==
    (fpc = "returned" /\ export_csv) =>
        \A k \in DatasetKeys : result_paths[k] # "none"

\* C28 witness: fetch_all has returned from the manual export after the
\* export of a table had failed.
C28_Witness ==
    /\ fpc = "returned"
    /\ export_csv
    /\ <<"export">> \in failures
    /\ \E t \in DatabaseTables : <<"table", t>> \in failures

----------------------------------------------------------------------------
\* Claims about the rows of the written sheets (checked under SpecSave)

\* the rows of the sheets written so far, in sheet order
WrittenRows == Concat([j \in DOMAIN sheets |-> sheets[j].rows])

\* C29: the rows of the sheets written so far, put one after another in
\* sheet order, are the first rows of the table in their order; once the
\* workbook is written they are the rows of the table, for a table of any
\* size, the empty one included.
C29_ShardingLosesNothing ==
    /\ xpc \in {"save", "failed", "done"} =>
         WrittenRows = SubSeq(xdf, 1, IF xi <= Len(xdf) THEN xi ELSE Len(xdf))
    /\ xpc = "done" => WrittenRows = xdf

\* C29 witness: a table that fills two sheets and a part of a third has
\* been written.
C29_Witness ==
    /\ xpc = "done"
    /\ Len(xdf) = 2 * MAXROWS_XLSX + 1
    /\ Len(sheets) = 3
    /\ WrittenRows = xdf

----------------------------------------------------------------------------
\* Claims about the join key (checked under SpecJoin)

\* C26: in the joined table, a plant row whose operator cell in the extract
\* is the same string as the identifier cell of a retained market actor
\* carries that actor's identifier and name, also when the string holds
\* whitespace.
C26_JoinKeyAgreement ==
    ppc = "done" =>
        LET src == Concat(src_ops)
        IN /\ Len(merged) = Len(src)
           /\ \A i \in DOMAIN src :
                (\E j \in DOMAIN opfeed : opfeed[j].market_actor_id = src[i])
                    => /\ merged[i].market_actor_id = src[i]
                       /\ merged[i].market_actor_name = <<"n">>

----------------------------------------------------------------------------
\* Claims about the SOAP streamer (checked under SpecSoap)

\* C30: the calls of fn ask for the pages 0, 1, 2, ... in this order; the
\* pages yielded are the non-empty chunks returned, in order; every chunk
\* before the last one returned is a full page, and once paging has ended
\* without an error the last one is empty or short; a _dump that finds its
\* file makes no call.
C30_SoapPaging ==
    [][/\ \A k \in DOMAIN calls' : calls'[k] = k - 1
       /\ parts' = SelectSeq(pages', LAMBDA c : c # <<>>)
       /\ \A k \in DOMAIN pages' : k < Len(pages') => Len(pages'[k]) = PageSize
       /\ spc' = "page" => \A k \in DOMAIN pages' : Len(pages'[k]) = PageSize
       /\ Len(pages') <= Len(calls') /\ Len(calls') <= Len(pages') + 1
       /\ spc' # "raised" => Len(calls') = Len(pages')
       /\ (spc' = "write" /\ spc = "page") =>
            Len(pages'[Len(pages')]) < PageSize
       /\ (spc = "dump" /\ path_exists) => (spc' = "done" /\ calls' = <<>>)]_vars

\* C30 witness: two full pages and a short one were asked for and yielded,
\* and the file was written.
C30_Witness ==
    /\ spc = "done"
    /\ calls = <<0, 1, 2>>
    /\ Len(parts) = 3
    /\ Len(parts[3]) < PageSize
    /\ parts[3] # <<>>

====
